---- MODULE Spec2Model ----
(***************************************************************************)
(* Payment verification and holdings ledger of the brokerage server        *)
(* (server routes + storage).  Every route handler is split at its awaits  *)
(* on storage, so that requests in flight interleave exactly where the     *)
(* Node.js runtime lets them.                                              *)
(*                                                                         *)
(* Numbers.  The numeric(18,8) columns are kept as fixed-point integers:   *)
(* a price counts 10^-PriceDigits dollars; an amount counts 1/AmountUnit   *)
(* of the smallest amount a column can hold, so that a request may carry   *)
(* more digits than the column keeps.  Sums, differences and comparisons   *)
(* of such values are exact in the handlers' double arithmetic; a value is *)
(* rounded to the column's scale when it is stored.                        *)
(***************************************************************************)
EXTENDS Integers, Sequences, FiniteSets, TLC

\* ------------------------------------------------------------------ bounds
MaxTxns == 2        \* transactions rows ever inserted
MaxFaults == 1      \* storage calls that throw
PriceDigits == 2    \* fractional digits kept for a price
AmountDigits == 1   \* digits of a request's amount beyond those a column keeps

PriceScale == 10 ^ PriceDigits
AmountUnit == 10 ^ AmountDigits

Users == {1, 2}     \* user 1 is the admin account
Coins == {1}
Slots == {1, 2}     \* requests in flight at once
Anonymous == 0
Callers == Users \cup {Anonymous}
UnknownCoin == 9
Prices == {100 * PriceScale, 200 * PriceScale}
AdminNotes == {""}
Amounts == {AmountUnit, 2 * AmountUnit}    \* amounts a request asks for ...
Dust == AmountUnit \div 3                  \* ... and one below the column's scale

Pending == "pending_verification"
Completed == "completed"
Rejected == "rejected"

VARIABLES
    useDatabase,    \* storage = DATABASE_URL ? DatabaseStorage : MemStorage
    coins,          \* coin id -> [price, isLocked], read through storage.getCoin
    transactions,   \* the transactions table; a row's id is its index
    holdings,       \* the holdings table (db)
    holdingSeq,     \* last value of the holdings.id serial
    memHoldings,    \* MemStorage.holdings
    holdingIdCounter, \* MemStorage.holdingIdCounter
    reqs,           \* slot -> the request it serves and where its handler stands
    credits,        \* history: txn id -> times its amount was added to a holding
    debits,         \* history: txn id -> times its amount was taken from a holding
    decisions,      \* history: txn id -> times a review wrote its status
    faults,         \* storage calls that have thrown so far
    response        \* what the last step answered to its client, if it answered

vars == <<useDatabase, coins, transactions, holdings, holdingSeq, memHoldings,
          holdingIdCounter, reqs, credits, debits, decisions, faults, response>>

\* ------------------------------------------------------------ pure helpers

\* Quotient rounded half up to the stored scale (numeric column on insert/update).
RoundDiv(num, den) == (num + (den \div 2)) \div den

\* amount.toString() written to a numeric(18,8) amount column.
Numeric(amount) == RoundDiv(amount, AmountUnit) * AmountUnit

\* The price column holding 'NaN' (0 / 0 in the handler's doubles).
NaN == -1

WeightedAverageTruncated(oldAmount, oldPrice, addAmount, addPrice) ==
    IF oldPrice = NaN \/ addPrice = NaN \/ oldAmount + addAmount = 0 THEN NaN
    ELSE (oldAmount * oldPrice + addAmount * addPrice) \div (oldAmount + addAmount)

WeightedAverageIgnoresOld(oldAmount, oldPrice, addAmount, addPrice) == addPrice

\* averagePrice = totalValue / newAmount
WeightedAverage(oldAmount, oldPrice, addAmount, addPrice) ==
    IF oldPrice = NaN \/ addPrice = NaN \/ oldAmount + addAmount = 0 THEN NaN
    ELSE RoundDiv(oldAmount * oldPrice + addAmount * addPrice, oldAmount + addAmount)

\* totalValue = price * amount, written to the numeric(18,8) total_value column.
TotalValueOf(price, amount) == RoundDiv(price * amount, AmountUnit)


HoldingsFor(rows, u, c) == {h \in rows : h.userId = u /\ h.coinId = c}

NoHolding == [id |-> 0, userId |-> 0, coinId |-> 0, amount |-> 0, purchasePrice |-> 0]
NoMeta == [none |-> "none"]

\* db.update(holdings).set(fields).where(id = id): no row, no effect.
UpdateHoldingRow(rows, id, amount, price) ==
    {IF h.id = id THEN [h EXCEPT !.amount = amount, !.purchasePrice = price] ELSE h
       : h \in rows}

UpdateHoldingAmount(rows, id, amount) ==
    {IF h.id = id THEN [h EXCEPT !.amount = amount] ELSE h : h \in rows}

DeleteHoldingRow(rows, id) == {h \in rows : h.id # id}

\* Metadata is a function from keys to values; a JS spread / jsonb || merge
\* keeps the left keys and overwrites those the right side names.
MergeMeta(old, new) ==
    [k \in DOMAIN old \cup DOMAIN new |-> IF k \in DOMAIN new THEN new[k] ELSE old[k]]

BuyMetadata(method) ==
    [transactionHash |-> "hash", senderAddress |-> "sender", paymentMethod |-> method,
     verificationDate |-> "submitted", notes |-> "pending"]

WithdrawMetadata ==
    [withdrawalAddress |-> "address", withdrawalDate |-> "submitted", notes |-> "pending"]

VerifyMetadata(old, note) ==
    MergeMeta(old, [verificationDate |-> "verified",
                    adminNotes |-> IF note = "" THEN "default" ELSE note])

BulkMetadata(old, note) ==
    MergeMeta(old, [verificationDate |-> "verified",
                    adminNotes |-> IF note = "" THEN "bulk" ELSE note,
                    bulkAction |-> "true"])

\* ---------------------------------------------------------------- requests
\* let lastError: Error | null = null
NoError == [name |-> "null", message |-> ""]

\* req.query of the transaction listing: strings as they come in the URL.
NoQuery == [status |-> "", page |-> "", limit |-> ""]

IdleReq ==
    [op |-> "none", pc |-> "idle", caller |-> Anonymous, txnId |-> 0, ids |-> {},
     decision |-> "none", note |-> "", coinId |-> 0, amount |-> 0, method |-> "none",
     price |-> 0, holding |-> NoHolding, meta |-> NoMeta, todo |-> {}, processed |-> 0,
     query |-> NoQuery, rows |-> <<>>, maxRetries |-> 0, attempt |-> 0, invoked |-> 0,
     lastError |-> NoError]

Free(s) == reqs[s].pc = "idle"

\* res.status(..).json(..): what the client sees of a request.
Response(r, result) ==
    [op |-> r.op, caller |-> r.caller, result |-> result, processed |-> r.processed]
NoResponse == [op |-> "none", caller |-> Anonymous, result |-> "none", processed |-> 0]

\* The handler of slot s goes on as r / answers and is gone.
Continue(s, r) ==
    /\ reqs' = [reqs EXCEPT ![s] = r]
    /\ response' = NoResponse

Reply(s, r, result) ==
    /\ reqs' = [reqs EXCEPT ![s] = IdleReq]
    /\ response' = Response(r, result)

\* Requests in flight that will still insert a transactions row.
Inserting == {s \in Slots : reqs[s].pc \in {"buy_getCoin", "buy_insert", "wd_getCoin",
                                             "wd_getHolding", "wd_insert"}}

SeedHoldings ==
    {[id |-> 1, userId |-> 1, coinId |-> 1, amount |-> 24 * AmountUnit,
      purchasePrice |-> 42000 * PriceScale]}

Init ==
    /\ useDatabase \in BOOLEAN
    /\ coins = [c \in Coins |-> [price |-> 100 * PriceScale, isLocked |-> FALSE]]
    /\ transactions = <<>>
    /\ holdings = {}
    /\ holdingSeq = 0
    /\ memHoldings = IF useDatabase THEN {} ELSE SeedHoldings
    /\ holdingIdCounter = IF useDatabase THEN 1 ELSE 4
    /\ reqs = [s \in Slots |-> IdleReq]
    /\ credits = <<>>
    /\ debits = <<>>
    /\ decisions = <<>>
    /\ faults = 0
    /\ response = NoResponse

\* Only the database's users table ever holds an admin: MemStorage.createUser
\* stores isAdmin = false and nothing in MemStorage changes it.
IsAdmin(caller) == useDatabase /\ caller = 1

EnsureAdminAnyUser(caller) == caller # Anonymous

\* ensureAuthenticated / ensureAdmin
EnsureAuthenticated(caller) == caller # Anonymous
EnsureAdmin(caller) == caller # Anonymous /\ IsAdmin(caller)

NewTransactionCompleted(u, c, type, amount, price, method, meta) ==
    [userId |-> u, coinId |-> c, type |-> type, amount |-> Numeric(amount), price |-> price,
     totalValue |-> TotalValueOf(price, amount), paymentMethod |-> method,
     status |-> Completed, metadata |-> meta]

NewTransaction(u, c, type, amount, price, method, meta) ==
    [userId |-> u, coinId |-> c, type |-> type, amount |-> Numeric(amount), price |-> price,
     totalValue |-> TotalValueOf(price, amount), paymentMethod |-> method,
     status |-> Pending, metadata |-> meta]

Bump(h, id) == [h EXCEPT ![id] = @ + 1]

\* ------------------------------------------------ storage.createHolding

\* DatabaseStorage.createHolding: a plain insert, whatever rows exist.
DbCreateHolding(rows, seq, u, c, amount, price) ==
    rows \cup {[id |-> seq + 1, userId |-> u, coinId |-> c, amount |-> Numeric(amount),
                purchasePrice |-> price]}

\* MemStorage.createHolding: merge into the pair's row when there is one.
MemCreateHolding(rows, counter, u, c, amount, price) ==
    IF HoldingsFor(rows, u, c) # {}
    THEN LET e == CHOOSE h \in HoldingsFor(rows, u, c) :
                      \A g \in HoldingsFor(rows, u, c) : h.id <= g.id
         IN UpdateHoldingRow(rows, e.id, e.amount + amount,
                             WeightedAverage(e.amount, e.purchasePrice, amount, price))
    ELSE rows \cup {[id |-> counter, userId |-> u, coinId |-> c, amount |-> amount,
                     purchasePrice |-> price]}

\* -------------------------------------------- storage.getHoldingsByUserAndCoin
\* The rows a lookup of the pair may return: the select has no ORDER BY, so any
\* matching row can come first; NoHolding when there is none.
LookupHolding(rows, u, c) ==
    IF HoldingsFor(rows, u, c) = {} THEN {NoHolding} ELSE HoldingsFor(rows, u, c)

\* The holdings `storage` reads and creates.
StorageRows == IF useDatabase THEN holdings ELSE memHoldings

\* ------------------------------------------------ POST /api/portfolio/buy
BuyInputCheckAnyAmount(caller, amount) ==
    IF ~EnsureAuthenticated(caller) THEN "Unauthorized" ELSE "proceed"

\* What the handler answers before it reads anything, "proceed" if nothing ...
BuyInputCheck(caller, amount) ==
    IF ~EnsureAuthenticated(caller) THEN "Unauthorized"
    ELSE IF amount <= 0 THEN "ValidationError"
    ELSE "proceed"

\* ... and once storage.getCoin has answered.
BuyCoinCheck(coinId, method) ==
    IF coinId \notin Coins THEN "NotFound"
    ELSE IF method \notin {"USDT", "SOL"} THEN "ValidationError"
    ELSE "proceed"

StartBuy(s, caller, coinId, amount, proof, method) ==
    /\ Free(s)
    /\ Len(transactions) + Cardinality(Inserting) < MaxTxns
    /\ LET r == [IdleReq EXCEPT !.op = "buy", !.caller = caller, !.coinId = coinId,
                                !.amount = amount,
                                !.method = IF proof THEN method ELSE "incomplete"]
       IN IF BuyInputCheck(caller, amount) # "proceed"
          THEN Reply(s, r, BuyInputCheck(caller, amount))
          ELSE Continue(s, [r EXCEPT !.pc = "buy_getCoin"])
    /\ UNCHANGED <<useDatabase, coins, transactions, holdings, holdingSeq, memHoldings,
                   holdingIdCounter, credits, debits, faults, decisions>>

BuyGetCoin(s) ==
    /\ reqs[s].pc = "buy_getCoin"
    /\ LET r == reqs[s]
           check == BuyCoinCheck(r.coinId, r.method)
       IN IF check # "proceed"
          THEN Reply(s, r, check)
          ELSE Continue(s, [r EXCEPT !.pc = "buy_insert", !.price = coins[r.coinId].price])
    /\ UNCHANGED <<useDatabase, coins, transactions, holdings, holdingSeq, memHoldings,
                   holdingIdCounter, credits, debits, faults, decisions>>

BuyInsert(s) ==
    /\ reqs[s].pc = "buy_insert"
    /\ LET r == reqs[s]
       IN /\ transactions' = Append(transactions,
                 NewTransaction(r.caller, r.coinId, "buy", r.amount, r.price,
                                r.method, BuyMetadata(r.method)))
          /\ credits' = Append(credits, 0)
          /\ debits' = Append(debits, 0)
          /\ decisions' = Append(decisions, 0)
          /\ Continue(s, [r EXCEPT !.pc = "buy_createHolding",
                                   !.txnId = Len(transactions) + 1])
    /\ UNCHANGED <<useDatabase, coins, holdings, holdingSeq, memHoldings,
                   holdingIdCounter, faults>>

\* "Only create holding after transaction is recorded": storage.createHolding
BuyCreateHolding(s) ==
    /\ reqs[s].pc = "buy_createHolding"
    /\ LET r == reqs[s]
       IN /\ IF useDatabase
             THEN /\ holdings' = DbCreateHolding(holdings, holdingSeq, r.caller,
                                                 r.coinId, r.amount, r.price)
                  /\ holdingSeq' = holdingSeq + 1
                  /\ UNCHANGED <<memHoldings, holdingIdCounter, decisions>>
             ELSE /\ memHoldings' = MemCreateHolding(memHoldings, holdingIdCounter,
                                        r.caller, r.coinId, r.amount, r.price)
                  /\ holdingIdCounter' =
                         IF HoldingsFor(memHoldings, r.caller, r.coinId) # {}
                         THEN holdingIdCounter ELSE holdingIdCounter + 1
                  /\ UNCHANGED <<holdings, holdingSeq, decisions>>
          /\ credits' = Bump(credits, r.txnId)
          /\ Reply(s, r, "ok")
    /\ UNCHANGED <<useDatabase, coins, transactions, debits, faults, decisions>>

\* ------------------------------------------- POST /api/portfolio/withdraw
BeginWithdraw(s, caller, coinId, amount) ==
    /\ Free(s)
    /\ LET r == [IdleReq EXCEPT !.op = "withdraw", !.caller = caller,
                                !.coinId = coinId, !.amount = amount]
       IN IF ~EnsureAuthenticated(caller) THEN Reply(s, r, "Unauthorized")
          ELSE IF amount <= 0 THEN Reply(s, r, "ValidationError")
          ELSE Continue(s, [r EXCEPT !.pc = "wd_getCoin"])
    /\ UNCHANGED <<useDatabase, coins, transactions, holdings, holdingSeq, memHoldings,
                   holdingIdCounter, credits, debits, faults, decisions>>

StartWithdraw(s, caller, coinId, amount) ==
    /\ Len(transactions) + Cardinality(Inserting) < MaxTxns
    /\ BeginWithdraw(s, caller, coinId, amount)

WithdrawCoinCheckIgnoresLock(coinId) ==
    IF coinId \notin Coins THEN "NotFound" ELSE "proceed"

\* What the handler answers once storage.getCoin has answered.
WithdrawCoinCheck(coinId) ==
    IF coinId \notin Coins THEN "NotFound"
    ELSE IF coins[coinId].isLocked THEN "LockedAsset"
    ELSE "proceed"

WdGetCoin(s) ==
    /\ reqs[s].pc = "wd_getCoin"
    /\ LET r == reqs[s]
       IN IF WithdrawCoinCheck(r.coinId) # "proceed"
          THEN Reply(s, r, WithdrawCoinCheck(r.coinId))
          ELSE Continue(s, [r EXCEPT !.pc = "wd_getHolding",
                                     !.price = coins[r.coinId].price])
    /\ UNCHANGED <<useDatabase, coins, transactions, holdings, holdingSeq, memHoldings,
                   holdingIdCounter, credits, debits, faults, decisions>>

BalanceCheckNoLimit(h, amount) == IF h = NoHolding THEN "NotFound" ELSE "proceed"

\* What the balance check answers for the row `h` the lookup returned.
BalanceCheck(h, amount) ==
    IF h = NoHolding THEN "NotFound"
    ELSE IF h.amount < amount THEN "InsufficientBalance"
    ELSE "proceed"

WdGetHolding(s) ==
    /\ reqs[s].pc = "wd_getHolding"
    /\ LET r == reqs[s]
       IN \E h \in LookupHolding(StorageRows, r.caller, r.coinId) :
            IF BalanceCheck(h, r.amount) # "proceed"
            THEN Reply(s, r, BalanceCheck(h, r.amount))
            ELSE Continue(s, [r EXCEPT !.pc = "wd_insert", !.holding = h])
    /\ UNCHANGED <<useDatabase, coins, transactions, holdings, holdingSeq, memHoldings,
                   holdingIdCounter, credits, debits, faults, decisions>>

WdInsert(s) ==
    /\ reqs[s].pc = "wd_insert"
    /\ LET r == reqs[s]
       IN /\ transactions' = Append(transactions,
                 NewTransaction(r.caller, r.coinId, "sell", r.amount, r.price,
                                "crypto_withdrawal", WithdrawMetadata))
          /\ credits' = Append(credits, 0)
          /\ debits' = Append(debits, 0)
          /\ decisions' = Append(decisions, 0)
          /\ Continue(s, [r EXCEPT !.pc = "wd_debit", !.txnId = Len(transactions) + 1])
    /\ UNCHANGED <<useDatabase, coins, holdings, holdingSeq, memHoldings,
                   holdingIdCounter, faults>>

\* newAmount = currentHolding - withdrawAmount, from the row read earlier; the
\* delete / update goes to the holdings table by that row's id.
WithdrawDebit(rows, h, amount) ==
    IF h.amount - amount = 0
    THEN DeleteHoldingRow(rows, h.id)
    ELSE UpdateHoldingAmount(rows, h.id, Numeric(h.amount - amount))

WdDebit(s) ==
    /\ reqs[s].pc = "wd_debit"
    /\ LET r == reqs[s]
       IN /\ holdings' = WithdrawDebit(holdings, r.holding, r.amount)
          /\ debits' = IF holdings' # holdings THEN Bump(debits, r.txnId) ELSE debits
          /\ Reply(s, r, "ok")
    /\ UNCHANGED <<useDatabase, coins, transactions, holdingSeq, memHoldings,
                   holdingIdCounter, credits, faults, decisions>>

\* ------------------------------- PATCH /api/admin/transactions/:id/verify
TxnIds == 1..Len(transactions)

VerifyCheckSkipsStatus(id) ==
    IF id \notin TxnIds THEN "NotFound" ELSE "proceed"

\* What the handler answers for the row it selected, "proceed" if nothing.
VerifyCheck(id) ==
    IF id \notin TxnIds THEN "NotFound"
    ELSE IF transactions[id].status # Pending THEN "AlreadyFinalized"
    ELSE "proceed"

StatusAlwaysCompleted(decision) == Completed

StatusFor(decision) == IF decision \in {"approved", "approve"} THEN Completed ELSE Rejected

MergeAtLivePrice(rows, seq, h, t) ==
    IF h # NoHolding
    THEN UpdateHoldingRow(rows, h.id, Numeric(h.amount + t.amount),
                          WeightedAverage(h.amount, h.purchasePrice, t.amount,
                                          coins[t.coinId].price))
    ELSE DbCreateHolding(rows, seq, t.userId, t.coinId, t.amount, coins[t.coinId].price)

\* The approve branch's holdings write, from the row `h` the handler read
\* (NoHolding: none found) and the transaction row `t`.
MergeIntoHolding(rows, seq, h, t) ==
    IF h # NoHolding
    THEN UpdateHoldingRow(rows, h.id, Numeric(h.amount + t.amount),
                          WeightedAverage(h.amount, h.purchasePrice, t.amount, t.price))
    ELSE DbCreateHolding(rows, seq, t.userId, t.coinId, t.amount, t.price)

StartVerify(s, caller, id, decision, note) ==
    /\ Free(s)
    /\ LET r == [IdleReq EXCEPT !.op = "verify", !.caller = caller, !.txnId = id,
                                !.decision = decision, !.note = note]
       IN IF ~EnsureAdmin(caller) THEN Reply(s, r, "Forbidden")
          ELSE Continue(s, [r EXCEPT !.pc = "v_select"])
    /\ UNCHANGED <<useDatabase, coins, transactions, holdings, holdingSeq, memHoldings,
                   holdingIdCounter, credits, debits, faults, decisions>>

VSelect(s) ==
    /\ reqs[s].pc = "v_select"
    /\ LET r == reqs[s]
       IN IF VerifyCheck(r.txnId) # "proceed"
          THEN Reply(s, r, VerifyCheck(r.txnId))
          ELSE Continue(s, [r EXCEPT !.pc = "v_update",
                                     !.meta = transactions[r.txnId].metadata])
    /\ UNCHANGED <<useDatabase, coins, transactions, holdings, holdingSeq, memHoldings,
                   holdingIdCounter, credits, debits, faults, decisions>>

DecidedLosesAmount(t, status, meta) ==
    [t EXCEPT !.status = status, !.metadata = meta, !.amount = 0]

\* .set({status, metadata}): the row a review leaves of the row t.
Decided(t, status, meta) == [t EXCEPT !.status = status, !.metadata = meta]

\* update(transactions).set({status, metadata}).where(id = id)
VUpdate(s) ==
    /\ reqs[s].pc = "v_update"
    /\ LET r == reqs[s]
       IN /\ transactions' = [transactions EXCEPT ![r.txnId] =
                 Decided(@, StatusFor(r.decision), VerifyMetadata(r.meta, r.note))]
          /\ decisions' = Bump(decisions, r.txnId)
          /\ IF r.decision = "rejected"
             THEN Reply(s, r, "ok")
             ELSE Continue(s, [r EXCEPT !.pc = "v_selectHolding", !.meta = NoMeta])
    /\ UNCHANGED <<useDatabase, coins, holdings, holdingSeq, memHoldings,
                   holdingIdCounter, credits, debits, faults>>

VSelectHolding(s) ==
    /\ reqs[s].pc = "v_selectHolding"
    /\ LET r == reqs[s]
           t == transactions[r.txnId]
       IN \E h \in LookupHolding(holdings, t.userId, t.coinId) :
            Continue(s, [r EXCEPT !.pc = "v_writeHolding", !.holding = h])
    /\ UNCHANGED <<useDatabase, coins, transactions, holdings, holdingSeq, memHoldings,
                   holdingIdCounter, credits, debits, faults, decisions>>

VWriteHolding(s) ==
    /\ reqs[s].pc = "v_writeHolding"
    /\ LET r == reqs[s]
           t == transactions[r.txnId]
       IN /\ holdings' = MergeIntoHolding(holdings, holdingSeq, r.holding, t)
          /\ holdingSeq' = IF r.holding = NoHolding THEN holdingSeq + 1 ELSE holdingSeq
          /\ credits' = IF holdings' # holdings THEN Bump(credits, r.txnId) ELSE credits
          /\ Reply(s, r, "ok")
    /\ UNCHANGED <<useDatabase, coins, transactions, memHoldings, holdingIdCounter,
                   debits, faults, decisions>>

\* ------------------------------ POST /api/admin/transactions/bulk-action
PendingAmongIgnoresStatus(ids) == ids \cap TxnIds

\* WHERE id = ANY(ids) AND status = 'pending_verification'
PendingAmong(ids) == {id \in ids \cap TxnIds : transactions[id].status = Pending}

StartBulk(s, caller, ids, action, note) ==
    /\ Free(s)
    /\ LET r == [IdleReq EXCEPT !.op = "bulk", !.caller = caller, !.ids = ids,
                                !.decision = action, !.note = note]
       IN IF ~EnsureAdmin(caller) THEN Reply(s, r, "Forbidden")
          ELSE IF ids = {} THEN Reply(s, r, "ValidationError")
          ELSE Continue(s, [r EXCEPT !.pc = "b_select"])
    /\ UNCHANGED <<useDatabase, coins, transactions, holdings, holdingSeq, memHoldings,
                   holdingIdCounter, credits, debits, faults, decisions>>

\* transactionsToUpdate.length === 0 -> 400
BSelect(s) ==
    /\ reqs[s].pc = "b_select"
    /\ LET r == reqs[s]
       IN IF PendingAmong(r.ids) = {} THEN Reply(s, r, "NoValidPending")
          ELSE Continue(s, [r EXCEPT !.pc = "b_update"])
    /\ UNCHANGED <<useDatabase, coins, transactions, holdings, holdingSeq, memHoldings,
                   holdingIdCounter, credits, debits, faults, decisions>>

BulkSkipsLoop(s, r, todo) == Reply(s, r, "ok")

\* The loop over the rows the update returned goes on with `todo`, or is over.
BulkContinue(s, r, todo) ==
    IF todo = {} THEN Reply(s, r, "ok")
    ELSE Continue(s, [r EXCEPT !.pc = "b_selectHolding", !.todo = todo, !.txnId = 0,
                               !.holding = NoHolding])

\* update(transactions).set(..).where(id = ANY(ids) AND status = pending).returning()
BUpdate(s) ==
    /\ reqs[s].pc = "b_update"
    /\ LET r == reqs[s]
           result == PendingAmong(r.ids)
       IN /\ transactions' =
                 [id \in TxnIds |->
                    IF id \in result
                    THEN Decided(transactions[id], StatusFor(r.decision),
                                 BulkMetadata(transactions[id].metadata, r.note))
                    ELSE transactions[id]]
          /\ decisions' = [id \in TxnIds |-> IF id \in result THEN decisions[id] + 1
                                              ELSE decisions[id]]
          /\ BulkContinue(s, [r EXCEPT !.processed = Cardinality(result)],
                          IF r.decision = "approve" THEN result ELSE {})
    /\ UNCHANGED <<useDatabase, coins, holdings, holdingSeq, memHoldings,
                   holdingIdCounter, credits, debits, faults>>

\* One iteration of the loop: the holdings select ...
BSelectHolding(s) ==
    /\ reqs[s].pc = "b_selectHolding"
    /\ LET r == reqs[s]
       IN \E id \in r.todo :
            \E h \in LookupHolding(holdings, transactions[id].userId,
                                   transactions[id].coinId) :
                Continue(s, [r EXCEPT !.pc = "b_writeHolding", !.txnId = id,
                                      !.holding = h])
    /\ UNCHANGED <<useDatabase, coins, transactions, holdings, holdingSeq, memHoldings,
                   holdingIdCounter, credits, debits, faults, decisions>>

\* ... and the holdings write.
BWriteHolding(s) ==
    /\ reqs[s].pc = "b_writeHolding"
    /\ LET r == reqs[s]
           t == transactions[r.txnId]
       IN /\ holdings' = MergeIntoHolding(holdings, holdingSeq, r.holding, t)
          /\ holdingSeq' = IF r.holding = NoHolding THEN holdingSeq + 1 ELSE holdingSeq
          /\ credits' = IF holdings' # holdings THEN Bump(credits, r.txnId) ELSE credits
          /\ BulkContinue(s, r, r.todo \ {r.txnId})
    /\ UNCHANGED <<useDatabase, coins, transactions, memHoldings, holdingIdCounter,
                   debits, faults, decisions>>

\* ---------------------------------------------------------- storage errors
\* The storage call a handler is waiting on throws instead of taking effect.
\* Every handler's catch answers 500 and stops, except the bulk loop's inner
\* catch, which logs and goes on with the next returned row.
StorageFails(s) ==
    /\ reqs[s].pc # "idle"
    /\ reqs[s].op \in {"buy", "withdraw", "verify", "bulk"}
    /\ faults < MaxFaults
    /\ faults' = faults + 1
    /\ LET r == reqs[s]
       IN IF r.pc = "b_selectHolding"
          THEN \E id \in r.todo : BulkContinue(s, r, r.todo \ {id})
          ELSE IF r.pc = "b_writeHolding"
          THEN BulkContinue(s, r, r.todo \ {r.txnId})
          ELSE Reply(s, r, "StorageError")
    /\ UNCHANGED <<useDatabase, coins, transactions, holdings, holdingSeq, memHoldings,
                   holdingIdCounter, credits, debits, decisions>>

\* --------------------------------------------------------- coin directory
\* PATCH /api/coins/:id (any signed-in user): storage.updateCoin(id, {price})
UpdateCoinPrice(c, p) ==
    /\ coins[c].price # p
    /\ coins' = [coins EXCEPT ![c].price = p]
    /\ response' = NoResponse
    /\ UNCHANGED <<useDatabase, transactions, holdings, holdingSeq, memHoldings,
                   holdingIdCounter, reqs, credits, debits, faults, decisions>>

\* PATCH /api/coins/:id/toggle-lock (admin): storage.updateCoin(id, {isLocked})
SetCoinLock(caller, c, locked) ==
    /\ EnsureAdmin(caller)
    /\ coins[c].isLocked # locked
    /\ coins' = [coins EXCEPT ![c].isLocked = locked]
    /\ response' = NoResponse
    /\ UNCHANGED <<useDatabase, transactions, holdings, holdingSeq, memHoldings,
                   holdingIdCounter, reqs, credits, debits, faults, decisions>>

\* ------------------------------------------------------------------- Next
\* What a client may send.  A request that fails a check is answered the same
\* way whatever its other fields are, so one request of each failing kind is
\* enough next to the well-formed ones.
BuyInputs ==
    [caller : Users, coinId : Coins, amount : Amounts, proof : {TRUE}, method : {"USDT"}]
    \cup {[caller |-> 2, coinId |-> 1, amount |-> Dust, proof |-> TRUE, method |-> "USDT"],
          [caller |-> 2, coinId |-> 1, amount |-> AmountUnit, proof |-> TRUE, method |-> "SOL"],
          [caller |-> Anonymous, coinId |-> 1, amount |-> AmountUnit, proof |-> TRUE, method |-> "USDT"],
          [caller |-> 2, coinId |-> 1, amount |-> 0, proof |-> TRUE, method |-> "USDT"],
          [caller |-> 2, coinId |-> UnknownCoin, amount |-> AmountUnit, proof |-> TRUE, method |-> "USDT"],
          [caller |-> 2, coinId |-> 1, amount |-> AmountUnit, proof |-> FALSE, method |-> "USDT"],
          [caller |-> 2, coinId |-> 1, amount |-> AmountUnit, proof |-> TRUE, method |-> "BTC"]}

WithdrawInputs ==
    [caller : Users, coinId : Coins, amount : Amounts]
    \cup {[caller |-> 2, coinId |-> 1, amount |-> Dust],
          [caller |-> Anonymous, coinId |-> 1, amount |-> AmountUnit],
          [caller |-> 2, coinId |-> 1, amount |-> 0],
          [caller |-> 2, coinId |-> UnknownCoin, amount |-> AmountUnit]}

VerifyInputs ==
    [caller : {1}, id : 1..MaxTxns, decision : {"approved", "rejected"}, note : AdminNotes]
    \cup {[caller |-> 2, id |-> 1, decision |-> "approved", note |-> ""],
          [caller |-> Anonymous, id |-> 1, decision |-> "approved", note |-> ""]}

BulkInputs ==
    [caller : {1}, ids : SUBSET (1..MaxTxns), action : {"approve", "decline"},
     note : AdminNotes]
    \cup {[caller |-> 2, ids |-> {1}, action |-> "approve", note |-> ""],
          [caller |-> Anonymous, ids |-> {1}, action |-> "approve", note |-> ""]}

StartSubmission(s) ==
    \/ \E i \in BuyInputs : StartBuy(s, i.caller, i.coinId, i.amount, i.proof, i.method)
    \/ \E i \in WithdrawInputs : StartWithdraw(s, i.caller, i.coinId, i.amount)

StartReview(s) ==
    \/ \E i \in VerifyInputs : StartVerify(s, i.caller, i.id, i.decision, i.note)
    \/ \E i \in BulkInputs : StartBulk(s, i.caller, i.ids, i.action, i.note)

Start(s) ==
    \/ StartSubmission(s)
    \/ StartReview(s)

Step(s) ==
    \/ BuyGetCoin(s)
    \/ BuyInsert(s)
    \/ BuyCreateHolding(s)
    \/ WdGetCoin(s)
    \/ WdGetHolding(s)
    \/ WdInsert(s)
    \/ WdDebit(s)
    \/ VSelect(s)
    \/ VUpdate(s)
    \/ VSelectHolding(s)
    \/ VWriteHolding(s)
    \/ BSelect(s)
    \/ BUpdate(s)
    \/ BSelectHolding(s)
    \/ BWriteHolding(s)

Directory ==
    \/ \E c \in Coins, p \in Prices : UpdateCoinPrice(c, p)
    \/ \E c \in Coins, locked \in BOOLEAN : SetCoinLock(1, c, locked)

\* Requests served one after the other.
Next ==
    \/ Start(1)
    \/ Step(1)

Spec == Init /\ [][Next]_vars

\* Requests served one after the other, the coin directory changing at any time.
NextCoins ==
    \/ Start(1)
    \/ Step(1)
    \/ Directory

SpecCoins == Init /\ [][NextCoins]_vars

\* Requests served one after the other, storage calls failing.
NextFault ==
    \/ Start(1)
    \/ Step(1)
    \/ StorageFails(1)

SpecFault == Init /\ [][NextFault]_vars

\* One customer's submissions served one after the other; two admin reviews in
\* flight at once, interleaved at their storage calls.  The slots are
\* interchangeable: a request that arrives while nothing is in flight takes
\* slot 1.
Reviewing(s) == reqs[s].op \in {"verify", "bulk"}

CustomerSubmission(s) ==
    \/ \E i \in {j \in BuyInputs : j.caller = 2} :
          StartBuy(s, i.caller, i.coinId, i.amount, i.proof, i.method)
    \/ \E i \in {j \in WithdrawInputs : j.caller = 2} :
          StartWithdraw(s, i.caller, i.coinId, i.amount)

NextConc ==
    \/ Free(2) /\ CustomerSubmission(1)
    \/ Free(2) /\ StartReview(1)
    \/ Reviewing(1) /\ StartReview(2)
    \/ \E s \in Slots : Step(s)

SpecConc == Init /\ [][NextConc]_vars

\* ------------------------------------------------ concurrent withdrawals
MaxWithdrawals == 2

Withdrawals ==
    Cardinality({id \in TxnIds : transactions[id].type = "sell"})
      + Cardinality({s \in Slots : reqs[s].op = "withdraw" /\ reqs[s].pc \in
                        {"wd_getCoin", "wd_getHolding", "wd_insert"}})

SubmissionStep(s) ==
    \/ BuyGetCoin(s)
    \/ BuyInsert(s)
    \/ BuyCreateHolding(s)
    \/ WdGetCoin(s)
    \/ WdGetHolding(s)
    \/ WdInsert(s)
    \/ WdDebit(s)

\* One customer's buys served one after the other, then up to MaxWithdrawals
\* withdrawals of theirs, two in flight at once and interleaved at their
\* storage calls.
NextWithdraw ==
    \/ /\ Free(2)
       /\ \E i \in {j \in BuyInputs : j.caller = 2} :
             StartBuy(1, i.caller, i.coinId, i.amount, i.proof, i.method)
    \/ /\ Withdrawals < MaxWithdrawals
       /\ \E s \in Slots, i \in {j \in WithdrawInputs : j.caller = 2} :
             BeginWithdraw(s, i.caller, i.coinId, i.amount)
    \/ \E s \in Slots : SubmissionStep(s)

SpecWithdraw == Init /\ [][NextWithdraw]_vars

\* ------------------------------------------------------- executeWithRetry
DefaultMaxRetries == 3
RetryLimits == 1..DefaultMaxRetries

\* What an invocation of `operation` may come to: its result, or an error.
Success == [name |-> "", message |-> ""]
ConnectionErrors ==
    {[name |-> "Error", message |-> "Connection terminated unexpectedly"],
     [name |-> "Error", message |-> "Query read timeout"],
     [name |-> "Error", message |-> "Cannot use a pool after calling end on the pool"],
     [name |-> "ConnectionError", message |-> "Failed to connect"]}
OtherErrors ==
    {[name |-> "error", message |-> "duplicate key value violates unique constraint"]}
Outcomes == {Success} \cup ConnectionErrors \cup OtherErrors

\* lastError.message.toLowerCase().includes(needle), for the messages above.
LowerIncludes(message, needle) ==
    CASE needle = "connection terminated" -> message = "Connection terminated unexpectedly"
      [] needle = "timeout" -> message = "Query read timeout"
      [] needle = "connection timeout" -> FALSE
      [] needle = "pool" -> message = "Cannot use a pool after calling end on the pool"
      [] OTHER -> FALSE

IsConnectionErrorAlways(error) == TRUE

IsConnectionError(error) ==
    \/ LowerIncludes(error.message, "connection terminated")
    \/ LowerIncludes(error.message, "timeout")
    \/ LowerIncludes(error.message, "connection timeout")
    \/ LowerIncludes(error.message, "pool")
    \/ error.name = "ConnectionError"

\* What the caller of executeWithRetry gets: the result, or the error thrown,
\* after `invoked` invocations of the operation.
RetryResponse(r, result, outcome) ==
    [op |-> r.op, caller |-> r.caller, result |-> result, processed |-> 0,
     maxRetries |-> r.maxRetries, invoked |-> r.invoked + 1, outcome |-> outcome]

StartRetry(s, maxRetries) ==
    /\ Free(s)
    /\ Continue(s, [IdleReq EXCEPT !.op = "retry", !.pc = "r_operation",
                                   !.maxRetries = maxRetries, !.attempt = 1])
    /\ UNCHANGED <<useDatabase, coins, transactions, holdings, holdingSeq, memHoldings,
                   holdingIdCounter, credits, debits, faults, decisions>>

\* await operation() of the current attempt, and the catch.
RetryOperation(s) ==
    /\ reqs[s].pc = "r_operation"
    /\ \E outcome \in Outcomes :
         LET r == reqs[s]
         IN IF outcome = Success
            THEN /\ reqs' = [reqs EXCEPT ![s] = IdleReq]
                 /\ response' = RetryResponse(r, "ok", outcome)
            ELSE IF IsConnectionError(outcome) /\ r.attempt < r.maxRetries
            THEN Continue(s, [r EXCEPT !.pc = "r_delay", !.lastError = outcome,
                                       !.invoked = @ + 1])
            ELSE /\ reqs' = [reqs EXCEPT ![s] = IdleReq]
                 /\ response' = RetryResponse(r, "Throw", outcome)
    /\ UNCHANGED <<useDatabase, coins, transactions, holdings, holdingSeq, memHoldings,
                   holdingIdCounter, credits, debits, faults, decisions>>

\* The backoff timer fires and the loop goes to its next attempt.
RetryDelay(s) ==
    /\ reqs[s].pc = "r_delay"
    /\ Continue(s, [reqs[s] EXCEPT !.pc = "r_operation", !.attempt = @ + 1])
    /\ UNCHANGED <<useDatabase, coins, transactions, holdings, holdingSeq, memHoldings,
                   holdingIdCounter, credits, debits, faults, decisions>>

\* The ledger requests served one after the other with storage calls failing,
\* and calls of executeWithRetry among them; an operation under retry settles
\* and the backoff timer fires.
NextRetry ==
    \/ CustomerSubmission(1)
    \/ StartReview(1)
    \/ Step(1)
    \/ StorageFails(1)
    \/ \E maxRetries \in RetryLimits : StartRetry(1, maxRetries)
    \/ RetryOperation(1)
    \/ RetryDelay(1)

SpecRetry ==
    /\ Init
    /\ [][NextRetry]_vars
    /\ WF_vars(RetryOperation(1))
    /\ WF_vars(RetryDelay(1))

\* ------------------------------------------- GET /api/admin/transactions
QueryNumbers == {"", "-1", "0", "1", "2"}

\* parseInt of a query string: a number, or NaN for an absent parameter.
ParseInt(str) ==
    CASE str = "-1" -> [isNaN |-> FALSE, value |-> 0 - 1]
      [] str = "0" -> [isNaN |-> FALSE, value |-> 0]
      [] str = "1" -> [isNaN |-> FALSE, value |-> 1]
      [] str = "2" -> [isNaN |-> FALSE, value |-> 2]
      [] OTHER -> [isNaN |-> TRUE, value |-> 0]

\* parseInt(..) || fallback: NaN and 0 are falsy.
OrDefault(parsed, fallback) ==
    IF parsed.isNaN \/ parsed.value = 0 THEN fallback ELSE parsed.value

DefaultPage == 1
DefaultLimit == 20

PageOf(q) == OrDefault(ParseInt(q.page), DefaultPage)
LimitOf(q) == OrDefault(ParseInt(q.limit), DefaultLimit)
OffsetOf(q) == (PageOf(q) - 1) * LimitOf(q)

\* where(status ? eq(transactions.status, status) : undefined)
Matching(status) ==
    {id \in TxnIds : status = "" \/ transactions[id].status = status}

\* orderBy(desc(transactions.createdAt)): rows are created in id order.
RECURSIVE NewestFirst(_)
NewestFirst(ids) ==
    IF ids = {} THEN <<>>
    ELSE LET newest == CHOOSE id \in ids : \A other \in ids : other <= id
         IN <<newest>> \o NewestFirst(ids \ {newest})

MinOf(a, b) == IF a < b THEN a ELSE b

\* .limit(limit).offset(offset)
LimitOffset(rows, limit, offset) ==
    SubSeq(rows, offset + 1, MinOf(offset + limit, Len(rows)))

\* Math.ceil(count / limit) for a positive limit.
Ceil(count, limit) == (count + limit - 1) \div limit

ListResponse(r, count) ==
    [op |-> r.op, caller |-> r.caller, result |-> "ok", processed |-> Len(r.rows),
     rows |-> r.rows, total |-> count, page |-> PageOf(r.query),
     limit |-> LimitOf(r.query), totalPages |-> Ceil(count, LimitOf(r.query))]

StartList(s, caller, q) ==
    /\ Free(s)
    /\ LET r == [IdleReq EXCEPT !.op = "list", !.caller = caller, !.query = q]
       IN IF ~EnsureAdmin(caller) THEN Reply(s, r, "Forbidden")
          ELSE Continue(s, [r EXCEPT !.pc = "l_select"])
    /\ UNCHANGED <<useDatabase, coins, transactions, holdings, holdingSeq, memHoldings,
                   holdingIdCounter, credits, debits, faults, decisions>>

\* The page query; the database refuses a negative LIMIT or OFFSET and the
\* handler's catch answers 500.
ListSelect(s) ==
    /\ reqs[s].pc = "l_select"
    /\ LET r == reqs[s]
           q == r.query
       IN IF LimitOf(q) < 0 \/ OffsetOf(q) < 0
          THEN Reply(s, r, "Failed")
          ELSE Continue(s, [r EXCEPT !.pc = "l_count",
                                     !.rows = LimitOffset(NewestFirst(Matching(q.status)),
                                                          LimitOf(q), OffsetOf(q))])
    /\ UNCHANGED <<useDatabase, coins, transactions, holdings, holdingSeq, memHoldings,
                   holdingIdCounter, credits, debits, faults, decisions>>

\* The count query and the answer.
ListCount(s) ==
    /\ reqs[s].pc = "l_count"
    /\ reqs' = [reqs EXCEPT ![s] = IdleReq]
    /\ response' = ListResponse(reqs[s], Cardinality(Matching(reqs[s].query.status)))
    /\ UNCHANGED <<useDatabase, coins, transactions, holdings, holdingSeq, memHoldings,
                   holdingIdCounter, credits, debits, faults, decisions>>

ListInputs ==
    [caller : {1}, status : {"", Pending, Completed}, page : QueryNumbers,
     limit : QueryNumbers]
    \cup {[caller |-> 2, status |-> "", page |-> "1", limit |-> "1"]}

\* Requests served one after the other, the admin listing among them.
NextList ==
    \/ Start(1)
    \/ Step(1)
    \/ \E i \in ListInputs :
          StartList(1, i.caller, [status |-> i.status, page |-> i.page, limit |-> i.limit])
    \/ ListSelect(1)
    \/ ListCount(1)

SpecList == Init /\ [][NextList]_vars

\* ------------------------------------------------------------- the ledger
RECURSIVE SumRows(_)
SumRows(rows) ==
    IF rows = {} THEN 0
    ELSE LET h == CHOOSE x \in rows : TRUE IN h.amount + SumRows(rows \ {h})

RECURSIVE SumTxns(_)
SumTxns(ids) ==
    IF ids = {} THEN 0
    ELSE LET id == CHOOSE x \in ids : TRUE IN transactions[id].amount + SumTxns(ids \ {id})

\* What the holdings table says a user holds of a coin, over all the pair's rows.
HoldingAmount(u, c) == SumRows(HoldingsFor(holdings, u, c))

\* ... and what it says after the step.
HoldingAmountNext(u, c) == SumRows(HoldingsFor(holdings', u, c))

CompletedAmount(u, c, type) ==
    SumTxns({id \in TxnIds : /\ transactions[id].userId = u
                             /\ transactions[id].coinId = c
                             /\ transactions[id].type = type
                             /\ transactions[id].status = Completed})

\* The request of slot s takes a step.
Steps(s) == reqs'[s] # reqs[s]

\* The verify request of slot s, past its status check, on transaction row t.
Verifying(s, decision, type) ==
    /\ reqs[s].op = "verify"
    /\ reqs[s].pc \in {"v_update", "v_selectHolding", "v_writeHolding"}
    /\ reqs[s].decision = decision
    /\ transactions[reqs[s].txnId].type = type

\* What the transactions of a type submitted by u for c add up to.
SubmittedAmount(u, c, type) ==
    SumTxns({id \in TxnIds : /\ transactions[id].userId = u
                             /\ transactions[id].coinId = c
                             /\ transactions[id].type = type})

\* ------------------------------------------------------------------ claims

\* C1: for every (userId, coinId) the holding amount equals the completed buys
\* minus the completed sells of the pair, and is never negative (stated for the
\* database configuration, where the tables start empty).
C1_HoldingEqualsCompleted ==
    useDatabase =>
        \A u \in Users, c \in Coins :
            /\ HoldingAmount(u, c) =
                   CompletedAmount(u, c, "buy") - CompletedAmount(u, c, "sell")
            /\ HoldingAmount(u, c) >= 0

\* C2: a buy that is pending or rejected has never had its amount added to a
\* holding: submitBuy creates and updates no holding row.
C2_UnverifiedBuyNotCredited ==
    \A id \in TxnIds :
        (transactions[id].type = "buy" /\ transactions[id].status \in {Pending, Rejected})
            => credits[id] = 0

\* C3: once a transaction is completed or rejected, no step changes its status.
C3_TerminalStatusStays ==
    [][\A id \in TxnIds :
          transactions[id].status \in {Completed, Rejected}
              => transactions'[id].status = transactions[id].status]_vars

\* C4: of two concurrent verify requests for one pending transaction exactly one
\* succeeds: the status of a transaction is decided by one review only.
C4_SingleWinner == \A id \in TxnIds : decisions[id] <= 1

\* C5: verify on a transaction that is already completed or rejected answers the
\* already-finalized error and changes no transaction and no holding.
C5_TerminalVerifyRefused ==
    [][\A s \in Slots :
          (/\ reqs[s].pc = "v_select"
           /\ reqs[s].txnId \in TxnIds
           /\ transactions[reqs[s].txnId].status \in {Completed, Rejected}
           /\ Steps(s))
          => /\ reqs'[s] = IdleReq
             /\ response'.op = "verify"
             /\ response'.result = "AlreadyFinalized"
             /\ UNCHANGED <<transactions, holdings, memHoldings>>]_vars

C5_Witness == response.op = "verify" /\ response.result = "AlreadyFinalized"

\* C6: when a storage call of an approving verify fails after the status check,
\* the transaction is pending_verification afterwards, as before the call.
C6_FailedVerifyRollsBack ==
    [][\A s \in Slots :
          (/\ reqs[s].op = "verify"
           /\ reqs[s].pc \in {"v_update", "v_selectHolding", "v_writeHolding"}
           /\ Steps(s)
           /\ response'.result = "StorageError")
          => transactions'[reqs[s].txnId].status = Pending]_vars

\* C7: rejecting a pending withdrawal gives the holding back the amount the
\* submission took from it, so that it is again what it was before.
C7_RejectedWithdrawalRestored ==
    [][\A s \in Slots :
          (Verifying(s, "rejected", "sell") /\ reqs[s].pc = "v_update" /\ Steps(s))
          => LET t == transactions[reqs[s].txnId]
             IN HoldingAmountNext(t.userId, t.coinId) =
                    HoldingAmount(t.userId, t.coinId) + t.amount]_vars

\* C8: approving a pending withdrawal completes it and leaves every holding row
\* as it is.
C8_ApprovedWithdrawalLeavesHoldings ==
    [][\A s \in Slots :
          (Verifying(s, "approved", "sell") /\ Steps(s))
          => /\ holdings' = holdings
             /\ reqs[s].pc = "v_update"
                    => transactions'[reqs[s].txnId].status = Completed]_vars

\* The approve branch's holdings write for a buy, in slot s, when the quotient
\* is defined (a positive total amount, the old price a number); the row it
\* read is reqs[s].holding (NoHolding if none).
MergingBuy(s) ==
    /\ reqs[s].pc \in {"v_writeHolding", "b_writeHolding"}
    /\ transactions[reqs[s].txnId].type = "buy"
    /\ reqs[s].holding.amount + transactions[reqs[s].txnId].amount > 0
    /\ reqs[s].holding.purchasePrice # NaN
    /\ Steps(s)

MergedRows(s) ==
    IF reqs[s].holding = NoHolding
    THEN HoldingsFor(holdings', transactions[reqs[s].txnId].userId,
                     transactions[reqs[s].txnId].coinId)
    ELSE {h \in holdings' : h.id = reqs[s].holding.id}

C10_OneRowPerPair ==
    \A u \in Users, c \in Coins :
        /\ Cardinality(HoldingsFor(holdings, u, c)) <= 1
        /\ Cardinality(HoldingsFor(memHoldings, u, c)) <= 1

\* C11: every holding row that exists has an amount strictly greater than 0.
C11_HoldingRowsPositive ==
    \A h \in holdings \cup memHoldings : h.amount > 0

\* C12: holding updates are serialized per (userId, coinId): the holdings write
\* of an approved buy (one that a single review decided) adds the buy's amount
\* to what the pair holds at that moment, whatever other approval runs
\* concurrently; no update is lost to a stale read.
C12_NoLostUpdate ==
    [][\A s \in Slots :
          (/\ reqs[s].pc \in {"v_writeHolding", "b_writeHolding"}
           /\ transactions[reqs[s].txnId].type = "buy"
           /\ decisions[reqs[s].txnId] = 1
           /\ Steps(s))
          => LET t == transactions[reqs[s].txnId]
             IN HoldingAmountNext(t.userId, t.coinId) =
                    HoldingAmount(t.userId, t.coinId) + t.amount]_vars

\* The bulk request of slot s takes a step.
BulkSteps(s) == reqs[s].op = "bulk" /\ reqs[s].pc # "idle" /\ Steps(s)

\* The ids the bulk request of slot s asked for that exist and are pending now.
Included(s) ==
    {id \in reqs[s].ids : id \in TxnIds /\ transactions[id].status = Pending}

\* What a step of a bulk request does to the included and the other
\* transactions: at the status update each included id gets the decision's
\* status and every other row is kept, and the count of included ids is what
\* the request reports; no later step changes a transaction or credits one that
\* is not in the loop; the request ends with {processedCount}.
BulkEffect(s) ==
    LET r == reqs[s]
    IN /\ r.pc = "b_update"
           => /\ \A id \in Included(s) :
                   transactions'[id].status =
                       IF r.decision = "approve" THEN Completed ELSE Rejected
              /\ \A id \in TxnIds \ Included(s) : transactions'[id] = transactions[id]
              /\ IF reqs'[s].pc = "idle"
                 THEN response'.processed = Cardinality(Included(s))
                 ELSE reqs'[s].processed = Cardinality(Included(s))
       /\ r.pc \in {"b_selectHolding", "b_writeHolding"}
           => /\ transactions' = transactions
              /\ \A id \in TxnIds \ r.todo : credits'[id] = credits[id]
       /\ (r.pc # "b_select" /\ reqs'[s].pc = "idle")
           => /\ response'.op = "bulk"
              /\ response'.result = "ok"
              /\ r.pc # "b_update" => response'.processed = r.processed

C15_BulkFailureIsolated ==
    [][\A s \in Slots :
          (/\ reqs[s].pc \in {"b_selectHolding", "b_writeHolding"}
           /\ faults' # faults)
          => /\ \A id \in reqs[s].todo \ reqs'[s].todo :
                   transactions'[id].status = Pending
             /\ reqs[s].processed - 1 =
                   IF reqs'[s].pc = "idle" THEN response'.processed
                   ELSE reqs'[s].processed]_vars

\* C16: there is no state, storage failures included, in which a sell
\* transaction (of a stored amount above 0) exists, its request is over, and the
\* holding was not debited for it exactly once (stated for the database
\* configuration).
C16_SellAlwaysDebited ==
    \A id \in TxnIds :
        (/\ useDatabase
         /\ transactions[id].type = "sell"
         /\ transactions[id].amount > 0
         /\ \A s \in Slots : ~(reqs[s].op = "withdraw" /\ reqs[s].txnId = id))
        => debits[id] = 1

\* What `storage` says the user holds of the coin, over all the pair's rows.
StorageAmount(u, c) == SumRows(HoldingsFor(StorageRows, u, c))

\* C17: a withdrawal of more than the user holds of the coin, or of a coin the
\* user holds no row of, is refused at the balance check with the
\* insufficient-balance error (not-owned when there is no row); no transaction
\* is inserted and no holding changes.
C17_OverdrawRefused ==
    [][\A s \in Slots :
          (/\ reqs[s].pc = "wd_getHolding"
           /\ reqs[s].amount > StorageAmount(reqs[s].caller, reqs[s].coinId)
           /\ Steps(s))
          => /\ reqs'[s] = IdleReq
             /\ response'.op = "withdraw"
             /\ response'.result =
                    IF HoldingsFor(StorageRows, reqs[s].caller, reqs[s].coinId) = {}
                    THEN "NotFound" ELSE "InsufficientBalance"
             /\ UNCHANGED <<transactions, holdings, memHoldings>>]_vars

\* A withdrawal was refused for its amount while the user held a positive amount.
C17_Witness ==
    /\ response.op = "withdraw"
    /\ response.result = "InsufficientBalance"
    /\ \E h \in StorageRows : h.amount > 0

\* C18 as stated: a withdrawal for a locked coin is refused whatever the balance
\* and changes nothing, and no sell transaction is ever inserted for a coin
\* while it is locked.
C18_NoSellWhileLocked ==
    [][\A s \in Slots :
          /\ (reqs[s].pc = "wd_getCoin" /\ Steps(s) /\ reqs[s].coinId \in Coins
                 /\ coins[reqs[s].coinId].isLocked)
                => /\ response'.result = "LockedAsset"
                   /\ UNCHANGED <<transactions, holdings, memHoldings>>
          /\ (reqs[s].pc = "wd_insert" /\ Steps(s))
                => ~coins[reqs[s].coinId].isLocked]_vars

\* C18 amended: a withdrawal that reads the coin as locked is refused whatever
\* the balance, its request ends there, and nothing changes; a sell row is
\* inserted only by a request that went past that check.
C18_LockedWithdrawalRefused ==
    [][/\ \A s \in Slots :
            (reqs[s].pc = "wd_getCoin" /\ Steps(s) /\ reqs[s].coinId \in Coins
               /\ coins[reqs[s].coinId].isLocked)
            => /\ reqs'[s] = IdleReq
               /\ response'.op = "withdraw"
               /\ response'.result = "LockedAsset"
               /\ UNCHANGED <<transactions, holdings, memHoldings>>
       /\ (Len(transactions') > Len(transactions)
              /\ transactions'[Len(transactions')].type = "sell")
            => \E s \in Slots : reqs[s].pc = "wd_insert" /\ Steps(s)]_vars

\* A withdrawal was refused for the lock although its user held a row of the
\* coin that covers every amount a request asks for.
C18_Witness ==
    /\ response.op = "withdraw"
    /\ response.result = "LockedAsset"
    /\ \E h \in holdings : h.userId = response.caller /\ h.amount >= 2 * AmountUnit

\* The step appends a transactions row of the given type.
Inserts(type) ==
    /\ Len(transactions') = Len(transactions) + 1
    /\ transactions'[Len(transactions')].type = type

\* The buy request of slot s reads the coin / inserts its transaction.
BuyReadsCoin(s) == reqs[s].pc = "buy_getCoin" /\ reqs'[s].pc = "buy_insert"
BuyInserts(s) == reqs[s].pc = "buy_insert" /\ Steps(s)

\* What C19 says of a buy apart from totalValue: the price the request keeps is
\* the coin's price when it reads the coin; its insert appends exactly one row,
\* a pending buy of the caller at that price, paid in USDT or SOL, and keeps
\* every earlier row; a buy row is appended by such a step only, so none is
\* created in another status.
BuyRowInserted(s) ==
    /\ BuyReadsCoin(s) => reqs'[s].price = coins[reqs[s].coinId].price
    /\ BuyInserts(s) =>
          LET t == transactions'[Len(transactions')]
          IN /\ Len(transactions') = Len(transactions) + 1
             /\ \A id \in TxnIds : transactions'[id] = transactions[id]
             /\ t.type = "buy"
             /\ t.status = Pending
             /\ t.userId = reqs[s].caller
             /\ t.coinId = reqs[s].coinId
             /\ t.price = reqs[s].price
             /\ t.paymentMethod \in {"USDT", "SOL"}

C20_InvalidBuyRefused ==
    [][\A s \in Slots :
          /\ (reqs'[s].op = "buy" /\ reqs'[s].pc # "idle") => reqs'[s].amount > 0
          /\ (reqs[s].pc = "buy_getCoin" /\ Steps(s)) =>
                LET r == reqs[s]
                IN /\ r.coinId \notin Coins
                       => reqs'[s] = IdleReq /\ response'.result = "NotFound"
                   /\ (r.coinId \in Coins /\ r.method \notin {"USDT", "SOL"})
                       => reqs'[s] = IdleReq /\ response'.result = "ValidationError"
          /\ (response'.op = "buy" /\ response'.result \in {"ValidationError", "NotFound"})
                => /\ UNCHANGED <<transactions, holdings, memHoldings>>
                   /\ reqs[s].op = "buy" => reqs[s].pc = "buy_getCoin"]_vars

\* A buy was refused for validation after another one had been recorded.
C20_Witness ==
    /\ response.op = "buy"
    /\ response.result = "ValidationError"
    /\ Len(transactions) > 0

\* C21: rejecting a pending buy sets its status to rejected and changes no
\* holding row, and nothing of the buy is in a holding at that point (none was
\* ever applied), so the user holds what they held before the submission.
C21_RejectedBuyLeavesNoTrace ==
    [][\A s \in Slots :
          (Verifying(s, "rejected", "buy") /\ reqs[s].pc = "v_update" /\ Steps(s))
          => /\ transactions'[reqs[s].txnId].status = Rejected
             /\ UNCHANGED <<holdings, memHoldings>>
             /\ credits[reqs[s].txnId] = 0]_vars

\* The status update of a review (verify or bulk-action) in slot s.
ReviewWrites(s) == reqs[s].pc \in {"v_update", "b_update"} /\ Steps(s)

\* C22: the status update of verify and bulkVerify keeps every metadata entry a
\* transaction had before it, key and value, and the transaction it decides
\* has the verification timestamp and the admin note afterwards.
C22_MetadataPreserved ==
    [][\A s \in Slots : ReviewWrites(s) =>
          \A id \in TxnIds :
            /\ \A k \in DOMAIN transactions[id].metadata :
                  /\ k \in DOMAIN transactions'[id].metadata
                  /\ transactions'[id].metadata[k] = transactions[id].metadata[k]
            /\ transactions'[id].status # transactions[id].status
                  => {"verificationDate", "adminNotes"}
                         \subseteq DOMAIN transactions'[id].metadata]_vars

\* C23: no step changes the userId, coinId, type, amount, price, totalValue or
\* paymentMethod of a transaction or removes a transaction; a review writes
\* status and metadata only.
C23_TransactionsImmutable ==
    [][/\ Len(transactions') >= Len(transactions)
       /\ \A id \in TxnIds :
            /\ transactions'[id].userId = transactions[id].userId
            /\ transactions'[id].coinId = transactions[id].coinId
            /\ transactions'[id].type = transactions[id].type
            /\ transactions'[id].amount = transactions[id].amount
            /\ transactions'[id].price = transactions[id].price
            /\ transactions'[id].totalValue = transactions[id].totalValue
            /\ transactions'[id].paymentMethod = transactions[id].paymentMethod]_vars

\* A transaction of a positive amount was reviewed: status and metadata written.
C23_Witness ==
    \E id \in TxnIds :
        /\ transactions[id].status # Pending
        /\ "adminNotes" \in DOMAIN transactions[id].metadata
        /\ transactions[id].amount > 0

\* C24: when an approved buy is merged while the coin's price differs from the
\* price stored on the transaction, the holding gets the transaction's amount
\* and the average over the transaction's price, as if the coin's price had
\* not changed.
C24_MergeUsesSnapshot ==
    [][\A s \in Slots :
          (MergingBuy(s)
             /\ coins[transactions[reqs[s].txnId].coinId].price
                    # transactions[reqs[s].txnId].price)
          => LET old == reqs[s].holding
                 t == transactions[reqs[s].txnId]
             IN /\ MergedRows(s) # {}
                /\ \A h \in MergedRows(s) :
                     /\ h.amount = old.amount + t.amount
                     /\ h.purchasePrice =
                           IF old = NoHolding THEN t.price
                           ELSE WeightedAverage(old.amount, old.purchasePrice,
                                                t.amount, t.price)]_vars

\* An approved buy was merged after the coin's price had moved away from the
\* price the buy was submitted at.
C24_Witness ==
    /\ response.op \in {"verify", "bulk"}
    /\ response.result = "ok"
    /\ \E id \in TxnIds :
         /\ transactions[id].type = "buy"
         /\ transactions[id].status = Completed
         /\ transactions[id].amount > 0
         /\ credits[id] = 2
         /\ coins[transactions[id].coinId].price # transactions[id].price

\* C25: the listing refuses a page or limit of zero or less; every listing it
\* answers has page >= 1 and limit >= 1, total the number of rows matching the
\* status filter, totalPages = ceil(total / limit), and at most limit rows,
\* those at offset (page - 1) * limit, newest first.
C25_ListingValidated ==
    [][\A s \in Slots :
          (reqs[s].op = "list" /\ reqs[s].pc # "idle" /\ Steps(s) /\ Free(s)')
          => LET q == reqs[s].query
                 page == ParseInt(q.page)
                 limit == ParseInt(q.limit)
                 all == NewestFirst({id \in TxnIds :
                            q.status = "" \/ transactions[id].status = q.status})
             IN /\ ((~page.isNaN /\ page.value <= 0) \/ (~limit.isNaN /\ limit.value <= 0))
                      => response'.result # "ok"
                /\ response'.result = "ok"
                      => /\ response'.page >= 1
                         /\ response'.limit >= 1
                         /\ response'.total = Len(all)
                         /\ response'.totalPages * response'.limit >= response'.total
                         /\ (response'.totalPages - 1) * response'.limit < response'.total
                               \/ (response'.total = 0 /\ response'.totalPages = 0)
                         /\ Len(response'.rows) <= response'.limit
                         /\ \A i \in 1..Len(response'.rows) :
                               response'.rows[i]
                                 = all[(response'.page - 1) * response'.limit + i]]_vars

\* A review of the single transaction id by slot s, standing at `phase`: a
\* verify of id, or a bulk action on the set {id}.
SingleReview(s, id, approve, phase) ==
    \/ /\ reqs[s].op = "verify"
       /\ reqs[s].txnId = id
       /\ approve = (reqs[s].decision = "approved")
       /\ reqs[s].pc = <<"v_update", "v_selectHolding", "v_writeHolding">>[phase]
    \/ /\ reqs[s].op = "bulk"
       /\ reqs[s].ids = {id}
       /\ approve = (reqs[s].decision = "approve")
       /\ reqs[s].pc = <<"b_update", "b_selectHolding", "b_writeHolding">>[phase]

\* What a step of such a review does to the transaction and the holdings.
SingleReviewEffect(s, id, approve, phase) ==
    LET t == transactions[id]
    IN CASE phase = 1 ->
              /\ transactions'[id].status = IF approve THEN Completed ELSE Rejected
              /\ \A other \in TxnIds \ {id} : transactions'[other] = transactions[other]
              /\ holdings' = holdings
              /\ IF approve THEN SingleReview(s, id, approve, 2)'
                 ELSE Free(s)' /\ response'.result = "ok"
         [] phase = 2 ->
              /\ transactions' = transactions
              /\ holdings' = holdings
              /\ reqs'[s].holding \in LookupHolding(holdings, t.userId, t.coinId)
              /\ reqs'[s].txnId = id
              /\ reqs'[s].pc = IF reqs[s].op = "verify" THEN "v_writeHolding"
                               ELSE "b_writeHolding"
         [] phase = 3 ->
              /\ transactions' = transactions
              /\ holdings' = MergeIntoHolding(holdings, holdingSeq, reqs[s].holding, t)
              /\ Free(s)'
              /\ response'.result = "ok"

Returned(s) == {id \in TxnIds : transactions'[id] # transactions[id]}

C28_NoOverWithdraw ==
    (useDatabase /\ \A s \in Slots : Free(s))
    => \A u \in Users, c \in Coins :
         /\ SubmittedAmount(u, c, "sell") <= SubmittedAmount(u, c, "buy")
         /\ HoldingAmount(u, c)
              = SubmittedAmount(u, c, "buy") - SubmittedAmount(u, c, "sell")

C30_RetryBounded ==
    /\ [][\A s \in Slots :
            /\ (reqs[s].op = "retry" /\ reqs[s].pc = "r_operation" /\ Steps(s))
               => /\ reqs[s].invoked < reqs[s].maxRetries
                  /\ Free(s)' =>
                       /\ response'.invoked = reqs[s].invoked + 1
                       /\ response'.result = "ok" <=> response'.outcome = Success
                       /\ response'.result = "Throw" <=> response'.outcome # Success
                       /\ response'.outcome \in ConnectionErrors
                             => response'.invoked = reqs[s].maxRetries
                  /\ ~Free(s)' =>
                       /\ reqs'[s].lastError \in ConnectionErrors
                       /\ reqs'[s].invoked = reqs[s].invoked + 1
                       /\ reqs'[s].invoked < reqs[s].maxRetries
            /\ (reqs[s].op = "retry" /\ reqs[s].pc = "r_delay" /\ Steps(s))
               => /\ reqs'[s].pc = "r_operation"
                  /\ reqs'[s].invoked = reqs[s].invoked
                  /\ reqs'[s].lastError = reqs[s].lastError
            /\ (reqs[s].op \in {"buy", "withdraw", "verify", "bulk"} /\ Steps(s))
               => /\ \/ reqs'[s].pc # reqs[s].pc
                     \/ /\ reqs'[s].todo # reqs[s].todo
                        /\ reqs'[s].todo \subseteq reqs[s].todo
                  /\ (reqs[s].pc = "b_writeHolding" /\ ~Free(s)')
                       => reqs[s].txnId \notin reqs'[s].todo
                  /\ (faults' # faults /\ reqs[s].op # "bulk") => Free(s)']_vars
    /\ \A s \in Slots : (reqs[s].op = "retry") ~> Free(s)

\* executeWithRetry gave up after maxRetries connection errors in a row.
C30_Witness ==
    /\ response.op = "retry"
    /\ response.result = "Throw"
    /\ response.maxRetries = DefaultMaxRetries
    /\ response.invoked = DefaultMaxRetries
    /\ response.outcome \in ConnectionErrors

====
